---- MODULE Spec2Model ----
(***************************************************************************)
(* MindMap 360: flashcard anchors overlaid on a 360-degree panorama.       *)
(*                                                                         *)
(* Angles are whole degrees.  The camera zoom is held in thirds of a zoom  *)
(* unit (zoom = 3 is the viewer's zoom 1.0), so that both field-of-view    *)
(* formulas, 1 + zoom*0.5 and 1 - zoom*0.3, stay exact.  A JavaScript      *)
(* number that is the result of a division is held as a record: a          *)
(* fraction n/d with d > 0, or NaN, or an infinity with its sign.          *)
(***************************************************************************)
EXTENDS Integers, Sequences, FiniteSets, TLC

VARIABLES
    nd,               \* normalizer: the heading delta handed to it
    nr,               \* normalizer: normalizeHeading(nd)
    na,               \* normalizer: normalizeAngle(nd)
    nrr,              \* normalizer: normalizeHeading(nr)
    naa,              \* normalizer: normalizeAngle(na)
    npc,              \* normalizer: "input", "normalized", "renormalized"
                      \* ("idle" when no delta is under test)
    backend,          \* which KuulaViewer is mounted: "perspective" or "linear"
    mode,             \* TourProvider mode: "view" or "edit"
    orientation,      \* KuulaViewer orientation state (zoom in thirds)
    flashcards,       \* the active tour's flashcards, in order
    nextId,           \* the next id generateId() hands out
    selectedFlashcardId, \* TourProvider selectedFlashcardId, 0 for null
    editorOpen,       \* Home editorOpen
    pendingPosition,  \* Home pendingPosition, NoPosition for null
    overlay,          \* the markers of the last render, in order (the
                      \* hotSpots of the viewer's config for Pannellum)
    activeTourId,     \* TourProvider activeTourId (two tours: 1 and 2)
    otherFlashcards,  \* the flashcards of the tour that is not active
    addIntent,        \* the add-anchor intent the editor is open for, if any:
                      \* the position it carried, the mode when it was
                      \* emitted and the heading and pitch of the last
                      \* orientation event delivered before it
    lastEvent,        \* the data of the last 'orientation' event delivered
    saved,            \* what the event that led to this state saved through
                      \* the editor: "add" or "update" right after
                      \* handleSubmit did so, "none" otherwise
    now,              \* Date.now(), in ticks
    updatedAt,        \* each tour's updatedAt
    pannMounted,      \* PannellumViewer is mounted
    isReady,          \* PannellumViewer isReady (pannellum.js has loaded)
    viewerRef,        \* PannellumViewer viewerRef.current, 0 for null
    listeners,        \* document's 'mouseup' listeners: the handleMouseUp
                      \* closures, each with its startX and startY
    lastDown,         \* the last pointer-down over the viewer, if any
    lastUp,           \* the pointer-up that followed it, if any
    upLog,            \* what each handleMouseUp did on that pointer-up
    pannInstance,     \* which PannellumViewer instance is (or was last)
                      \* mounted: 1, 2, ...
    windowPannellum,  \* window.pannellum is defined
    scripts,          \* the pannellum.js <script> elements in the document:
                      \* the instance that injected each, and whether it
                      \* has loaded or failed
    links,            \* how many pannellum.css <link> elements there are
    viewers,          \* the pannellum viewers constructed and not destroyed
    timers,           \* the 100ms intervals set and not cleared (each named
                      \* by the viewer its effect run constructed)
    nextViewer,       \* the next viewer to be constructed
    sdkKey,           \* MatterportViewer: NEXT_PUBLIC_MATTERPORT_SDK_KEY is set
    mpScript,         \* the SDK <script>: "none", "loading", "loaded", "failed"
    sdkLoaded,        \* MatterportViewer sdkLoaded
    sdk,              \* MatterportViewer sdk: the handle of the connect call
                      \* that resolved last, 0 for null
    isConnected,      \* MatterportViewer isConnected
    error,            \* MatterportViewer error, "" for null
    lastClick,        \* MatterportViewer lastClick, NoClick for null
    subscriptions,    \* the handles with a live Pointer.intersection
                      \* subscription
    onloadArmed,      \* iframe.onload is the connect effect's handler
    iframeLoads,      \* how many load events the iframe has fired
    connectTimers,    \* pending setTimeout(connectSdk, 2000) timers
    connecting,       \* the connect calls awaiting their result
    connects,         \* how many connect calls were made
    gettingData,      \* the Model.getData() calls awaiting their result
    rejected,         \* a connect call has rejected
    mpMounted,        \* MatterportViewer is mounted
    api               \* KuulaViewer and the Kuula API script: mounted,
                      \* instance, isApiReady, script, owner, listeners

normVars == <<nd, nr, na, nrr, naa, npc>>

kuulaVars == <<backend, mode, orientation, flashcards, nextId,
               selectedFlashcardId, editorOpen, pendingPosition, overlay,
               activeTourId, otherFlashcards, addIntent, lastEvent, now,
               updatedAt>>

\* The page's state but what the viewer shows of the cards.
pageButOverlay == <<backend, mode, orientation, flashcards, nextId,
                    selectedFlashcardId, editorOpen, pendingPosition,
                    activeTourId, otherFlashcards, addIntent, lastEvent, now,
                    updatedAt>>

pannVars == <<pannMounted, isReady, viewerRef, listeners, lastDown, lastUp,
              upLog, pannInstance, windowPannellum, scripts, links, viewers,
              timers, nextViewer>>

mpVars == <<sdkKey, mpScript, sdkLoaded, sdk, isConnected, error, lastClick,
            subscriptions, onloadArmed, iframeLoads, connectTimers,
            connecting, connects, gettingData, rejected, mpMounted>>

\* What no handler of the page (TourProvider, Home, FlashcardEditor) touches.
apiVars == <<api>>

outsidePage == <<normVars, pannVars, mpVars, apiVars>>

vars == <<normVars, kuulaVars, pannVars, mpVars, apiVars, saved>>

----------------------------------------------------------------------------
(* Bounds *)

\* Largest heading delta (degrees, either sign) handed to the normalizer.
MaxDelta == 900

Deltas == (0 - MaxDelta)..MaxDelta

\* Flashcards ever created in one run (generateId() never repeats an id).
MaxCards == 1

\* Whole turns added to a heading when a heading is shifted round the circle.
MaxTurns == 2

\* Headings and pitches the viewer reports and anchors are placed at.
Headings == {0, 10, 45, 170, 350}
Pitches == {0, 30}

\* document 'mouseup' listeners registered at once.
MaxListeners == 2

\* PannellumViewer instances mounted in one run, the first included.
MaxMounts == 2

\* Pannellum viewers constructed in one run.
MaxViewers == 2

\* Pointer positions <<clientX, clientY>> of pointer-down and pointer-up
\* events: a pointer-up where the pointer went down, 4 pixels off on both
\* axes, and 5 pixels off on one axis.
DownPoints == {<<0, 0>>}
PointerPoints == {<<0, 0>>, <<4, 4>>, <<5, 0>>, <<0, 5>>}

\* What viewer.mouseEventToCoords returns: [pitch, yaw], or nothing.
NoCoords == << >>
LookupResults == {<<30, 170>>, NoCoords}

\* Zoom values (in thirds) the viewer reports.  KuulaViewer documents -1..1
\* but stores whatever the event carries; the perspective version is given
\* whole zooms, the linear version values where 1 - zoom*0.3 is exact in
\* double arithmetic (10 thirds makes the visible span exactly 0).
ZoomsPerspective == {0 - 6, 0 - 3, 0, 3, 18}
ZoomsLinear == {0 - 27, 0 - 3, 0, 3, 10}

----------------------------------------------------------------------------
(* Angular normalizer: KuulaViewer.tsx normalizeHeading, and the           *)
(* linear-mapping version's normalizeAngle (same two loops).               *)

RECURSIVE WhileAbove180(_)
\* while (diff > 180) diff -= 360;
WhileAbove180(diff) ==
    IF diff > 180 THEN WhileAbove180(diff - 360) ELSE diff

RECURSIVE WhileBelowMinus180(_)
\* while (diff < -180) diff += 360;
WhileBelowMinus180(diff) ==
    IF diff < 0 - 180 THEN WhileBelowMinus180(diff + 360) ELSE diff

\* A normalizer that tests once instead of looping (if for while).
normalizeHeadingOnce(diff) ==
    LET a == IF diff > 180 THEN diff - 360 ELSE diff
    IN  IF a < 0 - 180 THEN a + 360 ELSE a

\* A normalizer that steps by half a turn instead of a whole one.
normalizeHeadingHalfTurn(diff) ==
    LET a == IF diff > 180 THEN diff - 180 ELSE diff
    IN  IF a < 0 - 180 THEN a + 180 ELSE a

normalizeHeading(diff) == WhileBelowMinus180(WhileAbove180(diff))

normalizeAngle(angle) == WhileBelowMinus180(WhileAbove180(angle))

----------------------------------------------------------------------------
(* JavaScript numbers that come out of a division *)

NaN == [k |-> "nan", n |-> 0, d |-> 0]

Inf(s) == [k |-> "inf", n |-> s, d |-> 0]

Fin(n, d) == [k |-> "fin", n |-> n, d |-> d]

Sign(a) == IF a > 0 THEN 1 ELSE IF a < 0 THEN 0 - 1 ELSE 0

Abs(a) == IF a < 0 THEN 0 - a ELSE a

\* a / b for two finite numbers given on a common scale: 0/0 is NaN, a
\* non-zero number over 0 is an infinity with the numerator's sign.
Quot(a, b) ==
    IF b = 0 THEN (IF a = 0 THEN NaN ELSE Inf(Sign(a)))
    ELSE IF b > 0 THEN Fin(a, b)
    ELSE Fin(0 - a, 0 - b)

\* c + q * m for integers c and m (m # 0).
Affine(c, m, q) ==
    CASE q.k = "nan" -> NaN
      [] q.k = "inf" -> Inf(q.n * Sign(m))
      [] OTHER       -> Fin(c * q.d + m * q.n, q.d)

\* Math.min(c, q): NaN if q is NaN.
MathMin(c, q) ==
    CASE q.k = "nan" -> NaN
      [] q.k = "inf" -> IF q.n > 0 THEN Fin(c, 1) ELSE q
      [] OTHER       -> IF q.n > c * q.d THEN Fin(c, 1) ELSE q

\* Math.max(c, q): NaN if q is NaN.
MathMax(c, q) ==
    CASE q.k = "nan" -> NaN
      [] q.k = "inf" -> IF q.n < 0 THEN Fin(c, 1) ELSE q
      [] OTHER       -> IF q.n < c * q.d THEN Fin(c, 1) ELSE q

IsFinite(q) == q.k = "fin"

\* q = c, q < c, q > c for an integer c.
NumEq(q, c) == q.k = "fin" /\ q.n = c * q.d
NumLt(q, c) == q.k = "fin" /\ q.n < c * q.d
NumGt(q, c) == q.k = "fin" /\ q.n > c * q.d

\* Math.tan(deg * (Math.PI / 180)) times 10000, for deg = 0, 2.5, ..., 180.
\* Math.tan never returns 0 or an infinity but at 0: at 90 degrees it is
\* 1.6e16 (held as 1000.0000) and at 180 degrees -1.2e-16 (held as -0.0001).
TanTable ==
    <<
       0, 437, 875, 1317, 1763, 2217, 2679, 3153,
       3640, 4142, 4663, 5206, 5774, 6371, 7002, 7673,
       8391, 9163, 10000, 10913, 11918, 13032, 14281, 15697,
       17321, 19210, 21445, 24142, 27475, 31716, 37321, 45107,
       56713, 75958, 114301, 229038, 10000000, -229038, -114301, -75958,
       -56713, -45107, -37321, -31716, -27475, -24142, -21445, -19210,
       -17321, -15697, -14281, -13032, -11918, -10913, -10000, -9163,
       -8391, -7673, -7002, -6371, -5774, -5206, -4663, -4142,
       -3640, -3153, -2679, -2217, -1763, -1317, -875, -437,
       -1
    >>

\* Math.tan of an angle given in twelfths of a degree (a multiple of 2.5
\* degrees, up to half a turn either way); Math.tan is odd.
MathTan(a) ==
    IF a >= 0 THEN TanTable[(a \div 30) + 1]
    ELSE 0 - TanTable[((0 - a) \div 30) + 1]

----------------------------------------------------------------------------
(* Perspective backend: KuulaViewer.tsx *)

baseH == 90
baseV == 70

\* getEffectiveFOV: zoomFactor = 1 + zoom * 0.5, fov = base * zoomFactor.
\* The result is in sixths of a degree (zoom is in thirds).
getEffectiveFOV(zoom) ==
    [h |-> baseH * (6 + zoom), v |-> baseV * (6 + zoom)]

\* isFlashcardVisible without the 10-degree margin.
isFlashcardVisibleNoMargin(flashcard, o) ==
    LET fov == getEffectiveFOV(o.zoom)
        headingDiff == normalizeHeading(flashcard.position.heading - o.heading)
        pitchDiff == flashcard.position.pitch - o.pitch
    IN  /\ 12 * Abs(headingDiff) < fov.h
        /\ 12 * Abs(pitchDiff) < fov.v

\* isFlashcardVisible: |headingDiff| < fov.h / 2 + 10 and
\* |pitchDiff| < fov.v / 2 + 10 (both sides times 12).
isFlashcardVisible(flashcard, o) ==
    LET fov == getEffectiveFOV(o.zoom)
        headingDiff == normalizeHeading(flashcard.position.heading - o.heading)
        pitchDiff == flashcard.position.pitch - o.pitch
        hVisible == 12 * Abs(headingDiff) < fov.h + 120
        vVisible == 12 * Abs(pitchDiff) < fov.v + 120
    IN  hVisible /\ vVisible

\* getScreenPosition with both axes mirrored about the screen centre.
getScreenPositionMirrored(flashcard, o) ==
    LET fov == getEffectiveFOV(o.zoom)
        headingDiff == normalizeHeading(flashcard.position.heading - o.heading)
        pitchDiff == flashcard.position.pitch - o.pitch
        x == Affine(50, 0 - 50, Quot(MathTan(12 * headingDiff),
                                     MathTan(fov.h)))
        y == Affine(50, 50, Quot(MathTan(12 * pitchDiff), MathTan(fov.v)))
    IN  [x |-> MathMax(2, MathMin(98, x)),
         y |-> MathMax(2, MathMin(98, y))]

\* getScreenPosition: x = 50 + tan(headingRad) / tan(hFovRad) * 50,
\* y = 50 - tan(pitchRad) / tan(vFovRad) * 50, both clamped to [2, 98].
\* hFovRad is fov.h / 2 degrees, which is fov.h twelfths of a degree.
getScreenPosition(flashcard, o) ==
    LET fov == getEffectiveFOV(o.zoom)
        headingDiff == normalizeHeading(flashcard.position.heading - o.heading)
        pitchDiff == flashcard.position.pitch - o.pitch
        hFovRad == fov.h
        vFovRad == fov.v
        headingRad == 12 * headingDiff
        pitchRad == 12 * pitchDiff
        x == Affine(50, 50, Quot(MathTan(headingRad), MathTan(hFovRad)))
        y == Affine(50, 0 - 50, Quot(MathTan(pitchRad), MathTan(vFovRad)))
    IN  [x |-> MathMax(2, MathMin(98, x)),
         y |-> MathMax(2, MathMin(98, y))]

----------------------------------------------------------------------------
(* Linear-mapping backend: the other version of KuulaViewer *)

NoStyle == [left |-> NaN, top |-> NaN, none |-> TRUE]

\* getFlashcardStyle that culls with a 10-degree margin and a strict test.
getFlashcardStyleMargin(flashcard, o) ==
    LET dHeading == normalizeAngle(flashcard.position.heading - o.heading)
        dPitch == flashcard.position.pitch - o.pitch
        visibleH == 20 * (10 - o.zoom)
        visibleV == 15 * (10 - o.zoom)
    IN  IF ~ (4 * Abs(dHeading) < visibleH + 40
              /\ 4 * Abs(dPitch) < visibleV + 40)
        THEN NoStyle
        ELSE [left |-> Affine(50, 100, Quot(2 * dHeading, visibleH)),
              top  |-> Affine(50, 0 - 100, Quot(2 * dPitch, visibleV)),
              none |-> FALSE]

\* getFlashcardStyle that maps the half span to the screen edge twice over
\* (divides by the half span instead of the span).
getFlashcardStyleHalfSpan(flashcard, o) ==
    LET dHeading == normalizeAngle(flashcard.position.heading - o.heading)
        dPitch == flashcard.position.pitch - o.pitch
        visibleH == 20 * (10 - o.zoom)
        visibleV == 15 * (10 - o.zoom)
    IN  IF 4 * Abs(dHeading) > visibleH \/ 4 * Abs(dPitch) > visibleV
        THEN NoStyle
        ELSE [left |-> Affine(50, 100, Quot(4 * dHeading, visibleH)),
              top  |-> Affine(50, 0 - 100, Quot(4 * dPitch, visibleV)),
              none |-> FALSE]

\* getFlashcardStyle: visibleH = 100 * (1 - zoom * 0.3) and
\* visibleV = 75 * (1 - zoom * 0.3), held in half degrees; null (NoStyle)
\* when |dHeading| > visibleH / 2 or |dPitch| > visibleV / 2; otherwise
\* left = 50 + dHeading / visibleH * 100, top = 50 - dPitch / visibleV * 100.
getFlashcardStyle(flashcard, o) ==
    LET dHeading == normalizeAngle(flashcard.position.heading - o.heading)
        dPitch == flashcard.position.pitch - o.pitch
        visibleH == 20 * (10 - o.zoom)
        visibleV == 15 * (10 - o.zoom)
    IN  IF 4 * Abs(dHeading) > visibleH \/ 4 * Abs(dPitch) > visibleV
        THEN NoStyle
        ELSE [left |-> Affine(50, 100, Quot(2 * dHeading, visibleH)),
              top  |-> Affine(50, 0 - 100, Quot(2 * dPitch, visibleV)),
              none |-> FALSE]

----------------------------------------------------------------------------
(* Render: the markers KuulaViewer puts in the overlay *)

\* tour.flashcards.filter(isFlashcardVisible).map(... getScreenPosition ...)
PerspectiveOverlay(o, cards) ==
    LET shown == SelectSeq(cards, LAMBDA fc : isFlashcardVisible(fc, o))
    IN  [i \in 1..Len(shown) |->
            LET pos == getScreenPosition(shown[i], o)
            IN  [id |-> shown[i].id, left |-> pos.x, top |-> pos.y]]

\* tour.flashcards.map(... getFlashcardStyle ..., null when not visible)
LinearOverlay(o, cards) ==
    LET shown == SelectSeq(cards,
                           LAMBDA fc : ~ getFlashcardStyle(fc, o).none)
    IN  [i \in 1..Len(shown) |->
            LET style == getFlashcardStyle(shown[i], o)
            IN  [id |-> shown[i].id, left |-> style.left, top |-> style.top]]

\* A NaN held in an orientation or in a position (what arithmetic makes of an
\* undefined value too), as a number no angle or zoom of the model equals.
NotANumber == 0 - 1000000

\* The orientation holds a NaN.
Malformed(o) ==
    o.heading = NotANumber \/ o.pitch = NotANumber \/ o.zoom = NotANumber

\* The horizontal (vertical) comparison for this card involves a NaN.
HeadingIsNaN(fc, o) ==
    \/ fc.position.heading = NotANumber
    \/ o.heading = NotANumber
    \/ o.zoom = NotANumber

PitchIsNaN(fc, o) ==
    \/ fc.position.pitch = NotANumber
    \/ o.pitch = NotANumber
    \/ o.zoom = NotANumber

HasNaN(o, cards) ==
    \/ Malformed(o)
    \/ \E i \in 1..Len(cards) : HeadingIsNaN(cards[i], o)
                                  \/ PitchIsNaN(cards[i], o)

\* The same render when a NaN is involved: every comparison with NaN is
\* false and every arithmetic result is NaN.  isFlashcardVisible is then
\* false; getFlashcardStyle does not cull on the axis that holds the NaN and
\* places the marker at NaN on that axis.
OverlayWithNaN(b, o, cards) ==
    IF b = "perspective"
    THEN PerspectiveOverlay(o,
             SelectSeq(cards, LAMBDA fc : ~ HeadingIsNaN(fc, o)
                                          /\ ~ PitchIsNaN(fc, o)))
    ELSE LET hOut(fc) == IF HeadingIsNaN(fc, o) THEN FALSE
                         ELSE 4 * Abs(normalizeAngle(fc.position.heading
                                                     - o.heading))
                                  > 20 * (10 - o.zoom)
             vOut(fc) == IF PitchIsNaN(fc, o) THEN FALSE
                         ELSE 4 * Abs(fc.position.pitch - o.pitch)
                                  > 15 * (10 - o.zoom)
             shown == SelectSeq(cards, LAMBDA fc : ~ (hOut(fc) \/ vOut(fc)))
         IN  [i \in 1..Len(shown) |->
                 [id |-> shown[i].id,
                  left |-> IF HeadingIsNaN(shown[i], o) THEN NaN
                           ELSE Affine(50, 100,
                                    Quot(2 * normalizeAngle(
                                             shown[i].position.heading
                                             - o.heading),
                                         20 * (10 - o.zoom))),
                  top |-> IF PitchIsNaN(shown[i], o) THEN NaN
                          ELSE Affine(50, 0 - 100,
                                   Quot(2 * (shown[i].position.pitch
                                             - o.pitch),
                                        15 * (10 - o.zoom)))]]

\* PannellumViewer draws no overlay of its own (its anchors are hotspots).
Overlay(b, o, cards) ==
    CASE b \notin {"perspective", "linear"} -> << >>
      [] HasNaN(o, cards)   -> OverlayWithNaN(b, o, cards)
      [] b = "perspective"  -> PerspectiveOverlay(o, cards)
      [] OTHER              -> LinearOverlay(o, cards)

OverlayIds == {overlay[i].id : i \in 1..Len(overlay)}

----------------------------------------------------------------------------
(* PannellumViewer's hotspots: for this backend `overlay` is the hotSpots
   list of the current viewer's config. *)

\* The most hotspots the model lets one viewer hold.
MaxHotSpots == 2

\* tour.flashcards.map(fc => ({ id: fc.id, pitch, yaw, ... })), in the init
\* effect, and the addHotSpot calls of the hotspot-update effect.
HotSpotsOf(cards) ==
    [i \in 1..Len(cards) |->
        [id |-> cards[i].id, pitch |-> cards[i].position.pitch,
         yaw |-> cards[i].position.heading]]

\* The hotspot-update effect's body: removeHotSpot(hs.id) for every existing
\* hotspot, where a call that throws is swallowed by the try/catch and leaves
\* its hotspot in place (the indices in thrown), then addHotSpot for every
\* card of the tour.
updateHotspots(existing, thrown, cards) ==
    LET Kept[i \in 0..Len(existing)] ==
            IF i = 0 THEN << >>
            ELSE IF i \in thrown THEN Append(Kept[i - 1], existing[i])
                 ELSE Kept[i - 1]
    IN  Kept[Len(existing)] \o HotSpotsOf(cards)

\* The hotspot-update effect after a render, over the hotspots the viewer
\* holds then: it returns early without a viewer, and runs only when one of
\* its dependencies changed.  The removals of one run succeed or throw
\* together (the viewer has drawn its hotspots or it has not).
hotspotEffect(existing, cards, ref, ready, changed) ==
    IF ref = 0 \/ ~ ready \/ ~ changed
    THEN overlay' = existing
    ELSE \E thrown \in {{}, 1..Len(existing)} :
            /\ Len(updateHotspots(existing, thrown, cards)) <= MaxHotSpots
            /\ overlay' = updateHotspots(existing, thrown, cards)

\* What a render of the viewer leaves on the screen: the overlay of the
\* Kuula viewers, the hotspots of PannellumViewer.
render(cards, changed) ==
    IF backend = "pannellum"
    THEN hotspotEffect(overlay, cards, viewerRef, isReady, changed)
    ELSE overlay' = Overlay(backend, orientation, cards)

----------------------------------------------------------------------------
(* TourProvider and Home (page.tsx), around one mounted KuulaViewer *)

NoPosition == [heading |-> 0, pitch |-> 0, none |-> TRUE]

Position(h, p) == [heading |-> h, pitch |-> p, none |-> FALSE]

Zooms(b) == IF b = "perspective" THEN ZoomsPerspective ELSE ZoomsLinear

\* What the editor's question / answer / colour fields are saved with.
Texts(b) == IF b = "page" THEN {"q", "r"} ELSE {"q"}

\* selectedFlashcard = activeTour.flashcards.find(f => f.id === selectedId)
HasSelectedFlashcard ==
    \E i \in 1..Len(flashcards) : flashcards[i].id = selectedFlashcardId

\* No KuulaViewer is mounted and no Kuula API script is in the document.
ApiIdle ==
    [mounted |-> FALSE, instance |-> 0, isApiReady |-> FALSE,
     script |-> "none", owner |-> 0, listeners |-> 0]

\* A mounted KuulaViewer whose API script has loaded and whose listener
\* effect has registered the orientation listener.
ApiUp ==
    [mounted |-> TRUE, instance |-> 1, isApiReady |-> TRUE,
     script |-> "loaded", owner |-> 1, listeners |-> 1]

NormIdle ==
    /\ nd = 0
    /\ nr = 0
    /\ na = 0
    /\ nrr = 0
    /\ naa = 0
    /\ npc = "idle"

NoPointerDown == [x |-> 0, y |-> 0, mode |-> "view", none |-> TRUE]

NoPointerUp == [x |-> 0, y |-> 0, coords |-> NoCoords, mode |-> "view",
                none |-> TRUE]

NoAddIntent == [heading |-> 0, pitch |-> 0, mode |-> "view",
                at |-> [heading |-> 0, pitch |-> 0], none |-> TRUE]

\* onAddFlashcard(position), as emitted now.
AddIntent(h, p) ==
    [heading |-> h, pitch |-> p, mode |-> mode,
     at |-> [heading |-> lastEvent.heading, pitch |-> lastEvent.pitch],
     none |-> FALSE]

PannIdle ==
    /\ pannMounted = FALSE
    /\ pannInstance = 0
    /\ isReady = FALSE
    /\ viewerRef = 0
    /\ listeners = << >>
    /\ lastDown = NoPointerDown
    /\ lastUp = NoPointerUp
    /\ upLog = << >>
    /\ windowPannellum = FALSE
    /\ scripts = << >>
    /\ links = 0
    /\ viewers = {}
    /\ timers = {}
    /\ nextViewer = 1

\* lastClick === null
NoClick == << >>

MpIdle ==
    /\ sdkKey = FALSE
    /\ mpScript = "none"
    /\ sdkLoaded = FALSE
    /\ sdk = 0
    /\ isConnected = FALSE
    /\ error = ""
    /\ lastClick = NoClick
    /\ subscriptions = {}
    /\ onloadArmed = FALSE
    /\ iframeLoads = 0
    /\ connectTimers = 0
    /\ connecting = {}
    /\ connects = 0
    /\ gettingData = {}
    /\ rejected = FALSE
    /\ mpMounted = FALSE

PageInit ==
    /\ mode = "view"
    /\ orientation = [heading |-> 0, pitch |-> 0, zoom |-> 0]
    /\ flashcards = << >>
    /\ nextId = 1
    /\ selectedFlashcardId = 0
    /\ editorOpen = FALSE
    /\ pendingPosition = NoPosition
    /\ overlay = << >>
    /\ activeTourId = 1
    /\ otherFlashcards = << >>
    /\ addIntent = NoAddIntent
    /\ lastEvent = [heading |-> 0, pitch |-> 0, zoom |-> 0]
    /\ saved = "none"
    /\ now = 0
    /\ updatedAt = [t \in 1..2 |-> 0]

InitKuula ==
    /\ NormIdle
    /\ PannIdle
    /\ MpIdle
    /\ backend \in {"perspective", "linear"}
    /\ PageInit
    /\ api = ApiUp

\* An orientation that keeps the pitch it had.
setOrientationKeepsPitch(prev, data) ==
    [heading |-> data.heading, pitch |-> prev.pitch, zoom |-> data.zoom]

\* setOrientation({ heading: e.data.heading, pitch: e.data.pitch,
\*                  zoom: e.data.zoom }): nothing of prev is kept.
setOrientation(prev, data) ==
    [heading |-> data.heading, pitch |-> data.pitch, zoom |-> data.zoom]

\* handleOrientation: the whole orientation is replaced by the event's data
\* (and orientationRef.current follows it).
handleOrientation(h, p, z) ==
    /\ lastEvent' = [heading |-> h, pitch |-> p, zoom |-> z]
    /\ orientation' = setOrientation(orientation, lastEvent')
    /\ overlay' = Overlay(backend, orientation', flashcards)
    /\ saved' = "none"
    /\ UNCHANGED <<outsidePage, backend, mode, flashcards, nextId,
                   selectedFlashcardId, editorOpen, pendingPosition,
                   activeTourId, otherFlashcards, addIntent, now, updatedAt>>

\* The sidebar's mode buttons (under the editor's backdrop while it is open).
setMode(m) ==
    /\ ~ editorOpen
    /\ mode' = m
    /\ render(flashcards, m # mode)
    /\ saved' = "none"
    /\ UNCHANGED <<outsidePage, backend, orientation, flashcards, nextId,
                   selectedFlashcardId, editorOpen, pendingPosition,
                   activeTourId, otherFlashcards, addIntent, lastEvent,
                   now, updatedAt>>

\* An add intent that stores the position and leaves the editor as it is.
HomeAddFlashcardClosed(intent) ==
    /\ pendingPosition' = Position(intent.heading, intent.pitch)
    /\ editorOpen' = editorOpen
    /\ addIntent' = intent
    /\ saved' = "none"

\* Home handleAddFlashcard(position): the intent opens the editor.
HomeAddFlashcard(intent) ==
    /\ pendingPosition' = Position(intent.heading, intent.pitch)
    /\ editorOpen' = TRUE
    /\ addIntent' = intent
    /\ saved' = "none"

\* KuulaViewer handleAddFlashcard (the button exists in edit mode only), into
\* Home handleAddFlashcard.
handleAddFlashcard ==
    /\ ~ editorOpen
    /\ mode = "edit"
    /\ nextId <= MaxCards
    /\ HomeAddFlashcard(AddIntent(orientation.heading, orientation.pitch))
    /\ overlay' = Overlay(backend, orientation, flashcards)
    /\ UNCHANGED <<outsidePage, backend, mode, orientation, flashcards,
                   nextId, selectedFlashcardId, activeTourId,
                   otherFlashcards, lastEvent,
                   now, updatedAt>>

\* Home handleSelectFlashcard(id): selectFlashcard(id), and in edit mode the
\* editor opens.
HomeSelectFlashcard(id) ==
    /\ selectedFlashcardId' = id
    /\ editorOpen' = (editorOpen \/ (id # 0 /\ mode = "edit"))
    /\ saved' = "none"

\* A click on a rendered marker: Home handleSelectFlashcard.
handleSelectFlashcard(id) ==
    /\ ~ editorOpen
    /\ id \in OverlayIds
    /\ HomeSelectFlashcard(id)
    /\ overlay' = Overlay(backend, orientation, flashcards)
    /\ UNCHANGED <<outsidePage, backend, mode, orientation, flashcards,
                   nextId, pendingPosition, activeTourId, otherFlashcards,
                   addIntent, lastEvent,
                   now, updatedAt>>

\* TourProvider deleteFlashcard(activeTour.id, id).
deleteFlashcard(cards, id) == SelectSeq(cards, LAMBDA fc : fc.id # id)

\* Home handleDeleteFlashcard(id): TourProvider deleteFlashcard(activeTour.id,
\* id) filters the active tour's flashcards, stamps the tour with Date.now()
\* and clears the selection if it was that id.
HomeDeleteFlashcard(id) ==
    /\ flashcards' = deleteFlashcard(flashcards, id)
    /\ updatedAt' = [updatedAt EXCEPT ![activeTourId] = now]
    /\ selectedFlashcardId' =
           IF selectedFlashcardId = id THEN 0 ELSE selectedFlashcardId

\* A click on a rendered marker's delete button (edit mode only).
handleDeleteFlashcard(id) ==
    /\ ~ editorOpen
    /\ mode = "edit"
    /\ id \in OverlayIds
    /\ HomeDeleteFlashcard(id)
    /\ overlay' = Overlay(backend, orientation, flashcards')
    /\ saved' = "none"
    /\ UNCHANGED <<outsidePage, backend, mode, orientation, nextId,
                   editorOpen, pendingPosition, activeTourId,
                   otherFlashcards, addIntent, lastEvent, now>>

\* An update that also moves the card to the pending position.
updateFlashcardMoves(cards, id, text) ==
    [i \in 1..Len(cards) |->
        IF cards[i].id = id
        THEN [cards[i] EXCEPT !.text = text,
                              !.position = [heading |-> 0, pitch |-> 0]]
        ELSE cards[i]]

\* TourProvider updateFlashcard(tourId, id, { question, answer, color }):
\* { ...fc, ...updates } for the card with that id.
updateFlashcard(cards, id, text) ==
    [i \in 1..Len(cards) |->
        IF cards[i].id = id THEN [cards[i] EXCEPT !.text = text]
        ELSE cards[i]]

\* TourProvider addFlashcard(tourId, { question, answer, color, position }):
\* a new card with a fresh id, appended.
addFlashcard(cards, id, text, pos) ==
    Append(cards, [id |-> id, text |-> text,
                   position |-> [heading |-> pos.heading,
                                 pitch |-> pos.pitch]])

\* FlashcardEditor handleSubmit with a non-empty question and answer:
\* Home handleSaveFlashcard (update the selected card, else add a card at the
\* pending position), then handleCloseEditor.
handleSubmit ==
    /\ editorOpen
    /\ \E text \in Texts(backend) :
          IF HasSelectedFlashcard
          THEN /\ flashcards' = updateFlashcard(flashcards,
                                                selectedFlashcardId, text)
               /\ updatedAt' = [updatedAt EXCEPT ![activeTourId] = now]
               /\ saved' = "update"
               /\ UNCHANGED nextId
          ELSE IF ~ pendingPosition.none
          THEN /\ nextId <= MaxCards
               /\ flashcards' = addFlashcard(flashcards, nextId, text,
                                             pendingPosition)
               /\ updatedAt' = [updatedAt EXCEPT ![activeTourId] = now]
               /\ saved' = "add"
               /\ nextId' = nextId + 1
          ELSE /\ saved' = "none"
               /\ UNCHANGED <<flashcards, nextId, updatedAt>>
    /\ pendingPosition' = NoPosition
    /\ selectedFlashcardId' = 0
    /\ editorOpen' = FALSE
    /\ addIntent' = NoAddIntent
    /\ render(flashcards', saved' # "none" \/ selectedFlashcardId # 0)
    /\ UNCHANGED <<outsidePage, backend, mode, orientation, activeTourId,
                   otherFlashcards, lastEvent,
                   now>>

\* Home handleCloseEditor (Cancel, or a click on the backdrop).
handleCloseEditor ==
    /\ editorOpen
    /\ editorOpen' = FALSE
    /\ pendingPosition' = NoPosition
    /\ selectedFlashcardId' = 0
    /\ addIntent' = NoAddIntent
    /\ render(flashcards, selectedFlashcardId # 0)
    /\ saved' = "none"
    /\ UNCHANGED <<outsidePage, backend, mode, orientation, flashcards,
                   nextId, activeTourId, otherFlashcards, lastEvent, now,
                   updatedAt>>

NextKuula ==
    \/ \E h \in Headings, p \in Pitches, z \in Zooms(backend) :
           handleOrientation(h, p, z)
    \/ \E m \in {"view", "edit"} : setMode(m)
    \/ handleAddFlashcard
    \/ \E id \in 1..MaxCards : handleSelectFlashcard(id)
    \/ \E id \in 1..MaxCards : handleDeleteFlashcard(id)
    \/ handleSubmit
    \/ handleCloseEditor

SpecKuula == InitKuula /\ [][NextKuula]_vars

\* 'orientation' events whose data holds a NaN (or an undefined value, which
\* arithmetic turns into NaN) in one field.
MalformedEvents ==
    {[heading |-> NotANumber, pitch |-> 0, zoom |-> 0],
     [heading |-> 0, pitch |-> NotANumber, zoom |-> 0],
     [heading |-> 0, pitch |-> 0, zoom |-> NotANumber]}

\* The same page when the viewer also delivers malformed events.
NextTrack ==
    \/ NextKuula
    \/ \E e \in MalformedEvents : handleOrientation(e.heading, e.pitch, e.zoom)

SpecTrack == InitKuula /\ [][NextTrack]_vars

----------------------------------------------------------------------------
(* TourProvider and Home on their own: the handlers Home passes to whichever *)
(* viewer is mounted (onAddFlashcard, onSelectFlashcard, onDeleteFlashcard), *)
(* called with any argument a viewer may pass.  The viewer specifications    *)
(* above and below run inside one tick of the clock; here it advances.       *)

\* The clock's last tick.
MaxNow == 1

\* The ids a caller may pass: every id generateId() can have handed out, and
\* one more that no card has.
CallerIds == 1..(MaxCards + 1)

\* The positions a viewer passes to onAddFlashcard.
PagePositions == {Position(170, 30), Position(10, 0)}

\* The ids of the active tour's cards.
ActiveIds == {flashcards[i].id : i \in 1..Len(flashcards)}

InitPage ==
    /\ NormIdle
    /\ PannIdle
    /\ MpIdle
    /\ backend = "page"
    /\ PageInit
    /\ api = ApiIdle

\* Time passes between two events.
tick ==
    /\ now < MaxNow
    /\ now' = now + 1
    /\ saved' = "none"
    /\ UNCHANGED <<outsidePage, backend, mode, orientation, flashcards,
                   nextId, selectedFlashcardId, editorOpen, pendingPosition,
                   overlay, activeTourId, otherFlashcards, addIntent,
                   lastEvent, updatedAt>>

\* onAddFlashcard(position).
pageAddFlashcard(pos) ==
    /\ ~ editorOpen
    /\ HomeAddFlashcard(AddIntent(pos.heading, pos.pitch))
    /\ UNCHANGED <<outsidePage, backend, mode, orientation, flashcards,
                   nextId, selectedFlashcardId, overlay, activeTourId,
                   otherFlashcards, lastEvent, now, updatedAt>>

\* onSelectFlashcard(id).
pageSelectFlashcard(id) ==
    /\ ~ editorOpen
    /\ HomeSelectFlashcard(id)
    /\ UNCHANGED <<outsidePage, backend, mode, orientation, flashcards,
                   nextId, pendingPosition, overlay, activeTourId,
                   otherFlashcards, addIntent, lastEvent, now, updatedAt>>

\* onDeleteFlashcard(id).
pageDeleteFlashcard(id) ==
    /\ ~ editorOpen
    /\ HomeDeleteFlashcard(id)
    /\ saved' = "none"
    /\ UNCHANGED <<outsidePage, backend, mode, orientation, nextId,
                   editorOpen, pendingPosition, overlay, activeTourId,
                   otherFlashcards, addIntent, lastEvent, now>>

\* The sidebar's tour buttons: setActiveTour(id) = setActiveTourId(id), and
\* nothing else.
pageSelectTour(t) ==
    /\ ~ editorOpen
    /\ t # activeTourId
    /\ activeTourId' = t
    /\ flashcards' = otherFlashcards
    /\ otherFlashcards' = flashcards
    /\ saved' = "none"
    /\ UNCHANGED <<outsidePage, backend, mode, orientation, nextId,
                   selectedFlashcardId, editorOpen, pendingPosition, overlay,
                   addIntent, lastEvent, now, updatedAt>>

NextPage ==
    \/ tick
    \/ \E m \in {"view", "edit"} : setMode(m)
    \/ \E pos \in PagePositions : pageAddFlashcard(pos)
    \/ \E id \in CallerIds : pageSelectFlashcard(id)
    \/ \E id \in CallerIds : pageDeleteFlashcard(id)
    \/ \E t \in 1..2 : pageSelectTour(t)
    \/ handleSubmit
    \/ handleCloseEditor

SpecPage == InitPage /\ [][NextPage]_vars

----------------------------------------------------------------------------
(* Home driven by a viewer: the markers pass the ids of the cards they were
   given, and the add control exists in edit mode only. *)

viewerAddFlashcard(pos) ==
    /\ mode = "edit"
    /\ pageAddFlashcard(pos)

viewerSelectFlashcard(id) ==
    /\ id \in ActiveIds
    /\ pageSelectFlashcard(id)

viewerDeleteFlashcard(id) ==
    /\ id \in ActiveIds
    /\ pageDeleteFlashcard(id)

NextHome ==
    \/ tick
    \/ \E m \in {"view", "edit"} : setMode(m)
    \/ \E pos \in PagePositions : viewerAddFlashcard(pos)
    \/ \E id \in CallerIds : viewerSelectFlashcard(id)
    \/ \E id \in CallerIds : viewerDeleteFlashcard(id)
    \/ \E t \in 1..2 : pageSelectTour(t)
    \/ handleSubmit
    \/ handleCloseEditor

SpecHome == InitPage /\ [][NextHome]_vars

----------------------------------------------------------------------------
(* Polled backend: PannellumViewer.  modeRef.current and                   *)
(* onAddFlashcardRef.current are refreshed by effects after every render,  *)
(* so the handlers below read mode and Home's handleAddFlashcard.          *)

\* The state after Home has mounted the first PannellumViewer: its
\* asset-load effect has injected the stylesheet and the script.
InitPann ==
    /\ NormIdle
    /\ MpIdle
    /\ backend = "pannellum"
    /\ PageInit
    /\ api = ApiIdle
    /\ pannMounted = TRUE
    /\ pannInstance = 1
    /\ isReady = FALSE
    /\ viewerRef = 0
    /\ listeners = << >>
    /\ lastDown = NoPointerDown
    /\ lastUp = NoPointerUp
    /\ upLog = << >>
    /\ windowPannellum = FALSE
    /\ scripts = <<[owner |-> 1, loaded |-> FALSE, failed |-> FALSE]>>
    /\ links = 1
    /\ viewers = {}
    /\ timers = {}
    /\ nextViewer = 1

\* A cleanup that forgets to destroy the viewer.
cleanupViewersKeeps(vs, ref) == vs

\* The init effect's cleanup, and the effect's "destroy existing viewer":
\* if (viewerRef.current) viewerRef.current.destroy().
cleanupViewers(vs, ref) == IF ref # 0 THEN vs \ {ref} ELSE vs

\* The init effect's cleanup: clearInterval(interval), the interval of the
\* effect run that constructed viewer ref.
cleanupTimers(ts, ref) == ts \ {ref}

\* The init effect with isReady true: construct the viewer, subscribe, and
\* set the 100ms interval, after the cleanup of the previous run (if any).
initEffect ==
    /\ nextViewer <= MaxViewers
    /\ viewers' = cleanupViewers(cleanupViewers(viewers, viewerRef), 0)
                      \cup {nextViewer}
    /\ timers' = cleanupTimers(timers, viewerRef) \cup {nextViewer}
    /\ viewerRef' = nextViewer
    /\ nextViewer' = nextViewer + 1

\* The onload of the i-th injected script: window.pannellum is defined and
\* setIsReady(true) reaches the instance that injected it, if still mounted;
\* the init effect then constructs the viewer.
scriptOnload(i) ==
    /\ i \in 1..Len(scripts)
    /\ ~ scripts[i].loaded
    /\ ~ scripts[i].failed
    /\ scripts' = [scripts EXCEPT ![i].loaded = TRUE]
    /\ windowPannellum' = TRUE
    /\ IF pannMounted /\ scripts[i].owner = pannInstance
       THEN /\ isReady' = TRUE
            /\ initEffect
            /\ hotspotEffect(HotSpotsOf(flashcards), flashcards, nextViewer,
                             TRUE, TRUE)
       ELSE UNCHANGED <<isReady, viewerRef, viewers, timers, nextViewer,
                        overlay>>
    /\ saved' = "none"
    /\ UNCHANGED <<normVars, apiVars,
                   mpVars, pageButOverlay, pannMounted,
                   pannInstance, listeners, lastDown, lastUp, upLog, links>>

\* The i-th injected script fails to load: the element has an onload handler
\* and no onerror handler, so nothing runs.
scriptOnerror(i) ==
    /\ i \in 1..Len(scripts)
    /\ ~ scripts[i].loaded
    /\ ~ scripts[i].failed
    /\ scripts' = [scripts EXCEPT ![i].failed = TRUE]
    /\ saved' = "none"
    /\ UNCHANGED <<normVars, apiVars,
                   mpVars, kuulaVars, pannMounted, isReady,
                   viewerRef, listeners, lastDown, lastUp, upLog,
                   pannInstance, windowPannellum, links, viewers, timers,
                   nextViewer>>

\* A click that counts either axis alone.
IsClickEitherAxis(dx, dy) == dx < 5 \/ dy < 5

\* if (dx < 5 && dy < 5): the mouse did not move much.
IsClick(dx, dy) == dx < 5 /\ dy < 5

\* The viewer's 'mousedown' handler: in edit mode it registers a
\* handleMouseUp closure over (startX, startY) on document.  (The editor's
\* backdrop covers the viewer while the editor is open.)  The closure reads
\* the viewerRef of the instance that registered it; which viewer was
\* current then is kept with it.
mousedown(pt) ==
    /\ viewerRef # 0
    /\ ~ editorOpen
    /\ nextId <= MaxCards
    /\ Len(listeners) < MaxListeners
    /\ listeners' = IF mode # "edit" THEN listeners
                    ELSE Append(listeners,
                                [startX |-> pt[1], startY |-> pt[2],
                                 inst |-> pannInstance,
                                 viewer |-> viewerRef])
    /\ lastDown' = [x |-> pt[1], y |-> pt[2], mode |-> mode, none |-> FALSE]
    /\ lastUp' = NoPointerUp
    /\ upLog' = << >>
    /\ saved' = "none"
    /\ UNCHANGED <<normVars, apiVars,
                   mpVars, kuulaVars, pannMounted, isReady, viewerRef,
                   pannInstance, windowPannellum, scripts, links, viewers,
                   timers, nextViewer>>

\* viewerRef.current as the closure l sees it: the ref of its own instance,
\* null once that instance's cleanup has run.
RefOf(l) == IF pannMounted /\ l.inst = pannInstance THEN viewerRef ELSE 0

\* What one handleMouseUp closure does with the pointer-up at pt: "add"
\* (onAddFlashcard called), "nothing", or "threw" (viewerRef.current is null:
\* the TypeError leaves the closure registered).
handleMouseUp(l, pt, coords) ==
    LET dx == Abs(pt[1] - l.startX)
        dy == Abs(pt[2] - l.startY)
    IN  IF IsClick(dx, dy)
        THEN IF RefOf(l) = 0 THEN "threw"
             ELSE IF coords # NoCoords THEN "add" ELSE "nothing"
        ELSE "nothing"

\* A pointer-up anywhere in the document: every registered handleMouseUp
\* runs; an "add" goes to Home handleAddFlashcard with
\* { heading: coords[1], pitch: coords[0] }.
mouseup(pt, coords) ==
    LET done == [i \in 1..Len(listeners) |->
                    [startX |-> listeners[i].startX,
                     startY |-> listeners[i].startY,
                     viewer |-> listeners[i].viewer,
                     ref |-> RefOf(listeners[i]),
                     outcome |-> handleMouseUp(listeners[i], pt, coords)]]
        added == \E i \in 1..Len(done) : done[i].outcome = "add"
    IN  /\ ~ lastDown.none
        /\ lastUp.none
        /\ lastUp' = [x |-> pt[1], y |-> pt[2], coords |-> coords,
                      mode |-> mode, none |-> FALSE]
        /\ upLog' = done
        /\ listeners' = SelectSeq(listeners,
                           LAMBDA l : handleMouseUp(l, pt, coords) = "threw")
        /\ IF added
           THEN HomeAddFlashcard(AddIntent(coords[2], coords[1]))
           ELSE /\ UNCHANGED <<pendingPosition, editorOpen, addIntent>>
                /\ saved' = "none"
        /\ UNCHANGED <<normVars, apiVars,
                       mpVars, backend, mode, orientation, flashcards,
                       nextId, selectedFlashcardId, overlay, activeTourId,
                       otherFlashcards, lastEvent, pannMounted, isReady,
                       viewerRef, lastDown, pannInstance, windowPannellum,
                       scripts, links, viewers, timers, nextViewer,
                   now, updatedAt>>

\* The sidebar's tour buttons, Home setActiveTour(id), with two tours: the
\* init effect (deps tour.id, tour.embedUrl) cleans up and runs again.
pannSelectTour(t) ==
    /\ ~ editorOpen
    /\ pannMounted
    /\ t # activeTourId
    /\ activeTourId' = t
    /\ flashcards' = otherFlashcards
    /\ otherFlashcards' = flashcards
    /\ IF isReady
       THEN /\ initEffect
            /\ hotspotEffect(HotSpotsOf(flashcards'), flashcards',
                             nextViewer, TRUE, TRUE)
       ELSE UNCHANGED <<viewerRef, viewers, timers, nextViewer, overlay>>
    /\ saved' = "none"
    /\ UNCHANGED <<normVars, apiVars,
                   mpVars, backend, mode, orientation, nextId,
                   selectedFlashcardId, editorOpen, pendingPosition,
                   addIntent, lastEvent, pannMounted, isReady,
                   listeners, lastDown, lastUp, upLog, pannInstance,
                   windowPannellum, scripts, links,
                   now, updatedAt>>

\* PannellumViewer unmounts: the init effect's cleanup clears the interval,
\* destroys the viewer and sets viewerRef.current to null.  document's
\* listeners stay.
pannUnmount ==
    /\ pannMounted
    /\ pannMounted' = FALSE
    /\ isReady' = FALSE
    /\ viewers' = cleanupViewers(viewers, viewerRef)
    /\ timers' = cleanupTimers(timers, viewerRef)
    /\ viewerRef' = 0
    /\ overlay' = << >>
    /\ saved' = "none"
    /\ UNCHANGED <<normVars, apiVars,
                   mpVars, pageButOverlay, listeners, lastDown,
                   lastUp, upLog, pannInstance, windowPannellum, scripts,
                   links, nextViewer>>

\* A new PannellumViewer instance mounts.  Its asset-load effect injects the
\* stylesheet unless a pannellum <link> is in the document, and the script
\* unless window.pannellum is defined; when it is, setIsReady(true) and the
\* init effect constructs the viewer.
pannMount ==
    /\ ~ pannMounted
    /\ pannInstance < MaxMounts
    /\ pannMounted' = TRUE
    /\ pannInstance' = pannInstance + 1
    /\ links' = IF links = 0 THEN 1 ELSE links
    /\ IF ~ windowPannellum
       THEN /\ scripts' = Append(scripts, [owner |-> pannInstance + 1,
                                           loaded |-> FALSE,
                                           failed |-> FALSE])
            /\ isReady' = FALSE
            /\ UNCHANGED <<viewerRef, viewers, timers, nextViewer, overlay>>
       ELSE /\ isReady' = TRUE
            /\ initEffect
            /\ hotspotEffect(HotSpotsOf(flashcards), flashcards, nextViewer,
                             TRUE, TRUE)
            /\ UNCHANGED scripts
    /\ saved' = "none"
    /\ UNCHANGED <<normVars, apiVars,
                   mpVars, pageButOverlay, listeners, lastDown,
                   lastUp, upLog, windowPannellum>>

\* A click on a hotspot: its clickHandlerFunc calls onSelectFlashcard with
\* the id the hotspot was made for; the hotspot-update effect follows the
\* change of the selection.
hotspotClick(id) ==
    /\ pannMounted
    /\ viewerRef # 0
    /\ ~ editorOpen
    /\ id \in OverlayIds
    /\ HomeSelectFlashcard(id)
    /\ hotspotEffect(overlay, flashcards, viewerRef, isReady,
                     id # selectedFlashcardId)
    /\ UNCHANGED <<normVars, apiVars,
                   mpVars, pannVars, backend, mode, orientation,
                   flashcards, nextId, pendingPosition, activeTourId,
                   otherFlashcards, addIntent, lastEvent, now, updatedAt>>

NextPann ==
    \/ \E i \in 1..MaxMounts : scriptOnload(i)
    \/ \E i \in 1..MaxMounts : scriptOnerror(i)
    \/ \E pt \in DownPoints : mousedown(pt)
    \/ \E pt \in PointerPoints, coords \in LookupResults : mouseup(pt, coords)
    \/ \E t \in 1..2 : pannSelectTour(t)
    \/ pannUnmount
    \/ pannMount
    \/ \E id \in 1..MaxCards : hotspotClick(id)
    \/ \E m \in {"view", "edit"} : setMode(m)
    \/ handleSubmit
    \/ handleCloseEditor

SpecPann == InitPann /\ [][NextPann]_vars

----------------------------------------------------------------------------
(* 3D-ray backend: MatterportViewer inside Home *)

\* How many load events the iframe fires.
MaxLoads == 1

\* intersection.position of a pointer intersection, <<x, y, z>>; NoClick for
\* an intersection without a position.
ClickPoints == {<<1, 0, 0>>, <<0, 1, 1>>}

\* Math.atan2(y, x) * (180 / Math.PI), for the arguments that occur.
Atan2Degrees(y, x) ==
    CASE y = 0 /\ x >= 0 -> 0
      [] y > 0 /\ x = 0 -> 90
      [] y = x /\ x > 0 -> 45
      [] OTHER -> 0

\* Math.sqrt(x ** 2 + z ** 2), with x or z zero.
Hypot(x, z) == Abs(x) + Abs(z)

\* setError's messages.
MissingKey == "Missing SDK key. Check .env.local"
ScriptFailed == "Failed to load Matterport SDK script"
ConnectFailed == "Failed to connect"

\* The subscription effect (deps sdk, mode): the previous run's subscription
\* is cancelled; with an sdk and in edit mode a new one is made.
subscriptionEffect(prev, handle, m) ==
    IF handle # 0 /\ m = "edit" THEN {handle} ELSE {}

\* The connect effect (deps sdkLoaded, sdkKey, sdk), run with the values
\* given: unless it returns early it sets iframe.onload and, the iframe
\* having a contentWindow, starts a timer.
connectEffectRuns(loaded, handle) == loaded /\ sdkKey /\ handle = 0

\* MatterportViewer just mounted, its effects run: without a key the load
\* effect sets the error; with one it injects the script.
InitMp ==
    /\ NormIdle
    /\ PannIdle
    /\ backend = "matterport"
    /\ PageInit
    /\ api = ApiIdle
    /\ sdkKey \in BOOLEAN
    /\ mpScript = IF sdkKey THEN "loading" ELSE "none"
    /\ sdkLoaded = FALSE
    /\ sdk = 0
    /\ isConnected = FALSE
    /\ error = IF sdkKey THEN "" ELSE MissingKey
    /\ lastClick = NoClick
    /\ subscriptions = {}
    /\ onloadArmed = FALSE
    /\ iframeLoads = 0
    /\ connectTimers = 0
    /\ connecting = {}
    /\ connects = 0
    /\ gettingData = {}
    /\ rejected = FALSE
    /\ mpMounted = TRUE

\* script.onload: setSdkLoaded(true), and the connect effect runs.  (A state
\* setter called after the unmount changes nothing.)
mpScriptOnload ==
    /\ mpScript = "loading"
    /\ mpScript' = "loaded"
    /\ sdkLoaded' = (sdkLoaded \/ mpMounted)
    /\ IF mpMounted /\ connectEffectRuns(TRUE, sdk)
       THEN /\ onloadArmed' = TRUE
            /\ connectTimers' = connectTimers + 1
       ELSE UNCHANGED <<onloadArmed, connectTimers>>
    /\ saved' = "none"
    /\ UNCHANGED <<normVars, apiVars,
                   pannVars, kuulaVars, sdkKey, sdk, isConnected,
                   error, lastClick, subscriptions, iframeLoads, connecting,
                   connects, gettingData, rejected, mpMounted>>

\* script.onerror.
mpScriptOnerror ==
    /\ mpScript = "loading"
    /\ mpScript' = "failed"
    /\ error' = IF mpMounted THEN ScriptFailed ELSE error
    /\ saved' = "none"
    /\ UNCHANGED <<normVars, apiVars,
                   pannVars, kuulaVars, sdkKey, sdkLoaded, sdk,
                   isConnected, lastClick, subscriptions, onloadArmed,
                   iframeLoads, connectTimers, connecting, connects,
                   gettingData, rejected, mpMounted>>

\* The iframe's load event: iframe.onload, if the connect effect has set it,
\* starts a timer.
mpIframeLoad ==
    /\ mpMounted
    /\ iframeLoads < MaxLoads
    /\ iframeLoads' = iframeLoads + 1
    /\ connectTimers' = IF onloadArmed THEN connectTimers + 1
                        ELSE connectTimers
    /\ saved' = "none"
    /\ UNCHANGED <<normVars, apiVars,
                   pannVars, kuulaVars, sdkKey, mpScript,
                   sdkLoaded, sdk, isConnected, error, lastClick,
                   subscriptions, onloadArmed, connecting, connects,
                   gettingData, rejected, mpMounted>>

\* A timer fires: connectSdk calls window.MP_SDK.connect and awaits.  No
\* cleanup clears the timers, so they fire after the unmount too.
mpTimerFires ==
    /\ connectTimers > 0
    /\ connectTimers' = connectTimers - 1
    /\ connects' = connects + 1
    /\ connecting' = connecting \cup {connects'}
    /\ saved' = "none"
    /\ UNCHANGED <<normVars, apiVars,
                   pannVars, kuulaVars, sdkKey, mpScript,
                   sdkLoaded, sdk, isConnected, error, lastClick,
                   subscriptions, onloadArmed, iframeLoads, gettingData,
                   rejected, mpMounted>>

\* connect call c resolves: setSdk(mpSdk), setIsConnected(true), then
\* Model.getData() is awaited; the connect effect runs again and returns
\* early, the subscription effect runs again.
mpConnectResolves(c) ==
    /\ c \in connecting
    /\ connecting' = connecting \ {c}
    /\ gettingData' = gettingData \cup {c}
    /\ IF mpMounted
       THEN /\ sdk' = c
            /\ isConnected' = TRUE
            /\ subscriptions' = subscriptionEffect(subscriptions, sdk', mode)
       ELSE UNCHANGED <<sdk, isConnected, subscriptions>>
    /\ saved' = "none"
    /\ UNCHANGED <<normVars, apiVars,
                   pannVars, kuulaVars, sdkKey, mpScript,
                   sdkLoaded, error, lastClick, onloadArmed, iframeLoads,
                   connectTimers, connects, rejected, mpMounted>>

\* connect call c rejects: the catch block sets the error.
mpConnectRejects(c) ==
    /\ c \in connecting
    /\ connecting' = connecting \ {c}
    /\ error' = IF mpMounted THEN ConnectFailed ELSE error
    /\ rejected' = TRUE
    /\ saved' = "none"
    /\ UNCHANGED <<normVars, apiVars,
                   pannVars, kuulaVars, sdkKey, mpScript,
                   sdkLoaded, sdk, isConnected, lastClick, subscriptions,
                   onloadArmed, iframeLoads, connectTimers, connects,
                   gettingData, mpMounted>>

\* Model.getData() of connect call c settles: logged, or caught by the same
\* catch block.
mpGetDataSettles(c, ok) ==
    /\ c \in gettingData
    /\ gettingData' = gettingData \ {c}
    /\ error' = IF ok \/ ~ mpMounted THEN error ELSE ConnectFailed
    /\ saved' = "none"
    /\ UNCHANGED <<normVars, apiVars,
                   pannVars, kuulaVars, sdkKey, mpScript,
                   sdkLoaded, sdk, isConnected, lastClick, subscriptions,
                   onloadArmed, iframeLoads, connectTimers, connecting,
                   connects, rejected, mpMounted>>

\* The sidebar's mode buttons; the subscription effect runs again.
mpSetMode(m) ==
    /\ ~ editorOpen
    /\ mode' = m
    /\ subscriptions' = IF mpMounted
                        THEN subscriptionEffect(subscriptions, sdk, m)
                        ELSE subscriptions
    /\ saved' = "none"
    /\ UNCHANGED <<normVars, apiVars,
                   pannVars, backend, orientation, flashcards,
                   nextId, selectedFlashcardId, editorOpen, pendingPosition,
                   overlay, activeTourId, otherFlashcards, addIntent,
                   lastEvent, now, updatedAt, sdkKey, mpScript,
                   sdkLoaded, sdk, isConnected, error, lastClick,
                   onloadArmed, iframeLoads, connectTimers, connecting,
                   connects, gettingData, rejected, mpMounted>>

\* The subscription's callback: if (intersection?.position)
\* setLastClick(intersection.position).
mpIntersection(position) ==
    /\ subscriptions # {}
    /\ lastClick' = IF position # NoClick THEN position ELSE lastClick
    /\ saved' = "none"
    /\ UNCHANGED <<normVars, apiVars,
                   pannVars, kuulaVars, sdkKey, mpScript,
                   sdkLoaded, sdk, isConnected, error, subscriptions,
                   onloadArmed, iframeLoads, connectTimers, connecting,
                   connects, gettingData, rejected, mpMounted>>

\* MatterportViewer unmounts: the subscription effect's cleanup cancels the
\* subscription.  The load effect's cleanup is empty and the connect effect
\* returns none: the script's handlers, iframe.onload's timers and the
\* pending connect calls stay.
mpUnmount ==
    /\ mpMounted
    /\ ~ editorOpen
    /\ mpMounted' = FALSE
    /\ subscriptions' = {}
    /\ saved' = "none"
    /\ UNCHANGED <<normVars, apiVars,
                   pannVars, kuulaVars, sdkKey, mpScript,
                   sdkLoaded, sdk, isConnected, error, lastClick,
                   onloadArmed, iframeLoads, connectTimers, connecting,
                   connects, gettingData, rejected>>

\* handleAddClick (the button is rendered when mode === 'edit' && lastClick).
handleAddClick ==
    /\ mpMounted
    /\ ~ editorOpen
    /\ mode = "edit"
    /\ lastClick # NoClick
    /\ nextId <= MaxCards
    /\ HomeAddFlashcard(
           AddIntent(Atan2Degrees(lastClick[1], lastClick[3]),
                     Atan2Degrees(lastClick[2],
                                  Hypot(lastClick[1], lastClick[3]))))
    /\ UNCHANGED <<outsidePage, backend, mode, orientation, flashcards,
                   nextId, selectedFlashcardId, overlay, activeTourId,
                   otherFlashcards, lastEvent, now, updatedAt>>

NextMp ==
    \/ mpScriptOnload
    \/ mpScriptOnerror
    \/ mpIframeLoad
    \/ mpTimerFires
    \/ \E c \in 1..(MaxLoads + 1) : mpConnectResolves(c)
    \/ \E c \in 1..(MaxLoads + 1) : mpConnectRejects(c)
    \/ \E c \in 1..(MaxLoads + 1), ok \in BOOLEAN : mpGetDataSettles(c, ok)
    \/ \E m \in {"view", "edit"} : mpSetMode(m)
    \/ \E position \in ClickPoints \cup {NoClick} : mpIntersection(position)
    \/ handleAddClick
    \/ mpUnmount
    \/ handleSubmit
    \/ handleCloseEditor

SpecMp == InitMp /\ [][NextMp]_vars

----------------------------------------------------------------------------
(* The normalizer applied to every delta of Deltas, then to its own result *)

----------------------------------------------------------------------------
(* Push-event backend: KuulaViewer's API script and its orientation
   listener, over mounts and remounts of the component *)

\* The most KuulaViewer instances mounted one after the other.
MaxApiMounts == 3

\* The first KuulaViewer has mounted: its script-load effect found no Kuula
\* script in the document and injected one; its listener effect returned
\* early (isApiReady is false).
InitApi ==
    /\ NormIdle
    /\ PannIdle
    /\ MpIdle
    /\ backend \in {"perspective", "linear"}
    /\ PageInit
    /\ api = [mounted |-> TRUE, instance |-> 1, isApiReady |-> FALSE,
              script |-> "loading", owner |-> 1, listeners |-> 0]

\* The listener effect (deps isApiReady), run with the values given: it
\* returns early unless isApiReady and window.KuulaPlayerAPI are set; the
\* result is the number of 'orientation' listeners registered.
listenerEffect(ready, script) ==
    IF ready /\ script = "loaded" THEN 1 ELSE 0

\* A KuulaViewer mounts (orientation starts at 0, 0, 0).  Script-load
\* effect: with a Kuula <script> in the document setIsApiReady(true), else a
\* script is injected whose onload sets this instance's isApiReady.  The
\* listener effect runs after the first render and after isApiReady changed.
apiMount ==
    /\ ~ api.mounted
    /\ api.instance < MaxApiMounts
    /\ api' = IF api.script # "none"
              THEN [api EXCEPT !.mounted = TRUE,
                               !.instance = api.instance + 1,
                               !.isApiReady = TRUE,
                               !.listeners = listenerEffect(TRUE, api.script)]
              ELSE [api EXCEPT !.mounted = TRUE,
                               !.instance = api.instance + 1,
                               !.isApiReady = FALSE,
                               !.script = "loading",
                               !.owner = api.instance + 1,
                               !.listeners = 0]
    /\ orientation' = [heading |-> 0, pitch |-> 0, zoom |-> 0]
    /\ overlay' = Overlay(backend, orientation', flashcards)
    /\ saved' = "none"
    /\ UNCHANGED <<normVars, pannVars, mpVars, backend, mode, flashcards,
                   nextId, selectedFlashcardId, editorOpen, pendingPosition,
                   activeTourId, otherFlashcards, addIntent, lastEvent, now,
                   updatedAt>>

\* The KuulaViewer unmounts: the listener effect's cleanup removes the
\* listeners it registered; the script stays in the document.
apiUnmount ==
    /\ api.mounted
    /\ api' = [api EXCEPT !.mounted = FALSE, !.isApiReady = FALSE,
                          !.listeners = 0]
    /\ saved' = "none"
    /\ UNCHANGED <<normVars, pannVars, mpVars, kuulaVars>>

\* The script's load event: window.KuulaPlayerAPI is defined and
\* script.onload calls setIsApiReady(true) of the instance that injected the
\* script; if that instance is still mounted its listener effect runs again.
apiScriptOnload ==
    /\ api.script = "loading"
    /\ api' = IF api.mounted /\ api.owner = api.instance
              THEN [api EXCEPT !.script = "loaded", !.isApiReady = TRUE,
                               !.listeners = listenerEffect(TRUE, "loaded")]
              ELSE [api EXCEPT !.script = "loaded"]
    /\ saved' = "none"
    /\ UNCHANGED <<normVars, pannVars, mpVars, kuulaVars>>

\* The player posts an orientation event: the registered listener runs.
apiOrientation(h, p, z) ==
    /\ api.listeners > 0
    /\ handleOrientation(h, p, z)

NextApi ==
    \/ apiMount
    \/ apiUnmount
    \/ apiScriptOnload
    \/ \E h \in Headings, p \in Pitches, z \in Zooms(backend) :
          apiOrientation(h, p, z)

SpecApi == InitApi /\ [][NextApi]_vars

\* The browser fires the load event of a script that is loading.
SpecApiFair ==
    InitApi /\ [][NextApi]_vars /\ WF_vars(apiScriptOnload)

KuulaIdle ==
    /\ backend = "perspective"
    /\ PageInit

InitNorm ==
    /\ nd \in Deltas
    /\ nr = 0
    /\ na = 0
    /\ nrr = 0
    /\ naa = 0
    /\ npc = "input"
    /\ KuulaIdle
    /\ api = ApiIdle
    /\ PannIdle
    /\ MpIdle

ApplyNormalize ==
    /\ npc = "input"
    /\ nr' = normalizeHeading(nd)
    /\ na' = normalizeAngle(nd)
    /\ npc' = "normalized"
    /\ saved' = "none"
    /\ UNCHANGED <<nd, nrr, naa, kuulaVars, pannVars, mpVars,
                   apiVars>>

ApplyAgain ==
    /\ npc = "normalized"
    /\ nrr' = normalizeHeading(nr)
    /\ naa' = normalizeAngle(na)
    /\ npc' = "renormalized"
    /\ saved' = "none"
    /\ UNCHANGED <<nd, nr, na, kuulaVars, pannVars, mpVars,
                   apiVars>>

NextNorm == ApplyNormalize \/ ApplyAgain

SpecNorm == InitNorm /\ [][NextNorm]_vars

----------------------------------------------------------------------------
(* C1: every result of the normalizer lies in the half-open range          *)
(* (-180, 180]: -180 itself is never returned.                             *)
NormalizeHalfOpen ==
    npc # "input" =>
        /\ nr > 0 - 180 /\ nr <= 180
        /\ na > 0 - 180 /\ na <= 180

(* C2: the normalizer's result is congruent to its argument modulo 360.    *)
NormalizeCongruent ==
    npc # "input" =>
        /\ (nr - nd) % 360 = 0
        /\ (na - nd) % 360 = 0

\* A delta more than a turn away has been brought back into range.
NormalizeCongruentWitness ==
    /\ npc = "normalized"
    /\ nd = 560
    /\ nr = 0 - 160
    /\ na = 0 - 160

(* C9: the normalizer is idempotent: applying it to its own result gives   *)
(* that result again.                                                      *)
NormalizeIdempotent ==
    npc = "renormalized" => (nrr = nr /\ naa = na)

\* The second application has run on the result of a delta two turns away.
NormalizeIdempotentWitness ==
    /\ npc = "renormalized"
    /\ nd = 900
    /\ nr = 180
    /\ nrr = 180
    /\ naa = 180

----------------------------------------------------------------------------
(* Claims about the overlay of the mounted KuulaViewer *)

\* The angular distance between two headings, the short way round.
AngularDistance(a, b) ==
    LET m == (a - b) % 360
    IN  IF m > 180 THEN 360 - m ELSE m

\* A flashcard moved k whole turns round the circle.
TurnCard(fc, k) ==
    [fc EXCEPT !.position.heading = fc.position.heading + 360 * k]

\* An orientation moved k whole turns round the circle.
TurnCamera(o, k) == [o EXCEPT !.heading = o.heading + 360 * k]

Turns == (0 - MaxTurns)..MaxTurns

\* The marker rendered for card id (the overlay holds at most one).
MarkerOf(id) ==
    overlay[CHOOSE i \in 1..Len(overlay) : overlay[i].id = id]

\* What one card contributes to a render: nothing, or a place on the screen.
Rendering(b, fc, o) ==
    IF b = "perspective"
    THEN IF isFlashcardVisible(fc, o)
         THEN [shown |-> TRUE, left |-> getScreenPosition(fc, o).x,
               top |-> getScreenPosition(fc, o).y]
         ELSE [shown |-> FALSE, left |-> NaN, top |-> NaN]
    ELSE IF ~ getFlashcardStyle(fc, o).none
         THEN [shown |-> TRUE, left |-> getFlashcardStyle(fc, o).left,
               top |-> getFlashcardStyle(fc, o).top]
         ELSE [shown |-> FALSE, left |-> NaN, top |-> NaN]

(* C3: whether an anchor is rendered and where depend on the two headings  *)
(* only through their normalized difference: a whole number of turns added *)
(* to the anchor's or to the camera's heading changes neither, and camera  *)
(* heading 350 with anchor heading 10 puts the anchor 20 degrees to the    *)
(* right (left of the marker = 70 at zoom 0 in the linear backend).        *)
HeadingOnlyThroughDifference ==
    \A i \in 1..Len(flashcards) :
        /\ \A k \in Turns, j \in Turns :
               Rendering(backend, TurnCard(flashcards[i], k),
                         TurnCamera(orientation, j))
                   = Rendering(backend, flashcards[i], orientation)
        /\ ( /\ orientation.heading = 350
             /\ flashcards[i].position.heading = 10
             /\ flashcards[i].position.pitch = orientation.pitch
             /\ orientation.zoom = 0 )
           => /\ flashcards[i].id \in OverlayIds
              /\ NumGt(MarkerOf(flashcards[i].id).left, 50)
              /\ backend = "linear"
                    => NumEq(MarkerOf(flashcards[i].id).left, 70)

(* C4: perspective backend: an anchor is in the overlay iff                *)
(* |normalized heading delta| < fovH/2 + 10 and |pitch delta| < fovV/2 +   *)
(* 10, with fovH = 90*(1 + 0.5*zoom) and fovV = 70*(1 + 0.5*zoom); an      *)
(* anchor failing the test has no marker at all.  (zoom is in thirds, so   *)
(* fovH/2 + 10 = (110 + 15*zoom)/2 and fovV/2 + 10 = (270 + 35*zoom)/6.)   *)
PerspectiveCulling ==
    backend = "perspective" =>
        /\ \A i \in 1..Len(flashcards) :
               flashcards[i].id \in OverlayIds
                   <=> /\ 2 * AngularDistance(flashcards[i].position.heading,
                                              orientation.heading)
                              < 110 + 15 * orientation.zoom
                       /\ 6 * Abs(flashcards[i].position.pitch
                                  - orientation.pitch)
                              < 270 + 35 * orientation.zoom
        /\ \A i \in 1..Len(overlay) :
               \E j \in 1..Len(flashcards) : flashcards[j].id = overlay[i].id

\* An anchor 45 degrees off centre at zoom 0 (half-FOV 45) is rendered: it
\* lies in the 10-degree margin.
PerspectiveCullingWitness ==
    /\ backend = "perspective"
    /\ orientation = [heading |-> 0, pitch |-> 0, zoom |-> 0]
    /\ Len(flashcards) = 1
    /\ flashcards[1].position = [heading |-> 45, pitch |-> 0]
    /\ Len(overlay) = 1

LinearPlacement ==
    backend = "linear" =>
        \A i \in 1..Len(flashcards) :
            LET fc == flashcards[i]
                visibleH == 100 - 10 * orientation.zoom
                twiceVisibleV == 150 - 15 * orientation.zoom
                pitchDelta == fc.position.pitch - orientation.pitch
            IN  /\ (fc.id \in OverlayIds /\ visibleH # 0) =>
                       LET m == MarkerOf(fc.id)
                       IN  /\ IsFinite(m.left) /\ IsFinite(m.top)
                           /\ \E headingDelta \in (0 - 180)..180 :
                                /\ (headingDelta - (fc.position.heading
                                       - orientation.heading)) % 360 = 0
                                /\ m.left.n * visibleH
                                     = (50 * visibleH + 100 * headingDelta)
                                           * m.left.d
                           /\ m.top.n * twiceVisibleV
                                = (50 * twiceVisibleV - 200 * pitchDelta)
                                      * m.top.d
                /\ orientation = [heading |-> 0, pitch |-> 0, zoom |-> 0] =>
                       /\ fc.position = [heading |-> 45, pitch |-> 0] =>
                              /\ fc.id \in OverlayIds
                              /\ NumEq(MarkerOf(fc.id).left, 95)
                              /\ NumEq(MarkerOf(fc.id).top, 50)
                       /\ fc.position.heading = 170 => fc.id \notin OverlayIds

\* The end-to-end scenario: the anchor at (45, 0) seen from (0, 0, zoom 0).
LinearPlacementWitness ==
    /\ backend = "linear"
    /\ orientation = [heading |-> 0, pitch |-> 0, zoom |-> 0]
    /\ Len(flashcards) = 1
    /\ flashcards[1].position = [heading |-> 45, pitch |-> 0]
    /\ Len(overlay) = 1
    /\ NumEq(overlay[1].left, 95)
    /\ NumEq(overlay[1].top, 50)

(* C7: perspective backend: every rendered anchor has a finite screen      *)
(* position with 2 <= x <= 98 and 2 <= y <= 98, whatever orientation the   *)
(* tracker holds.                                                          *)
PerspectiveWithinScreen ==
    backend = "perspective" =>
        \A i \in 1..Len(overlay) :
            /\ IsFinite(overlay[i].left)
            /\ IsFinite(overlay[i].top)
            /\ ~ NumLt(overlay[i].left, 2) /\ ~ NumGt(overlay[i].left, 98)
            /\ ~ NumLt(overlay[i].top, 2) /\ ~ NumGt(overlay[i].top, 98)

(* C8: perspective backend: an anchor whose heading delta and pitch delta  *)
(* are both 0 is at (50, 50), whatever zoom the tracker holds.             *)
PerspectiveCentre ==
    backend = "perspective" =>
        \A i \in 1..Len(flashcards) :
            ( /\ flashcards[i].position.heading = orientation.heading
              /\ flashcards[i].position.pitch = orientation.pitch )
            => /\ flashcards[i].id \in OverlayIds
               /\ NumEq(MarkerOf(flashcards[i].id).left, 50)
               /\ NumEq(MarkerOf(flashcards[i].id).top, 50)

----------------------------------------------------------------------------
(* Claims about PannellumViewer's click-versus-drag discrimination *)

\* Less than 5 pixels on both axes between a pointer-down and the pointer-up.
SmallDisplacement(x, y) ==
    /\ lastUp.x - x < 5 /\ x - lastUp.x < 5
    /\ lastUp.y - y < 5 /\ y - lastUp.y < 5

AddIntentEmitted == \E i \in 1..Len(upLog) : upLog[i].outcome = "add"

----------------------------------------------------------------------------
(* Claims about mode gating, the viewer's lifecycle and the tracker *)

(* C11: an add-anchor intent is emitted only while the mode is edit at the *)
(* moment of emission, in every backend, also for a pointer-up whose       *)
(* pointer-down happened before the mode left edit.                        *)
AddOnlyInEditMode == ~ addIntent.none => addIntent.mode = "edit"

(* C12: Pannellum backend: at most one viewer and at most one polling      *)
(* timer are live at any time (the previous ones are disposed of before a  *)
(* new viewer is constructed), they are the current viewer's, and none is  *)
(* live after unmount.                                                     *)
OneLiveViewer ==
    /\ Cardinality(viewers) <= 1
    /\ Cardinality(timers) <= 1
    /\ viewerRef # 0 => (viewers = {viewerRef} /\ timers = {viewerRef})
    /\ viewerRef = 0 => (viewers = {} /\ timers = {})
    /\ ~ pannMounted => viewerRef = 0

\* After a tour switch the second viewer is the only one live.
OneLiveViewerWitness ==
    /\ pannMounted
    /\ activeTourId = 2
    /\ viewerRef = 2
    /\ viewers = {2}
    /\ timers = {2}

(* C13: a pending click/drag discrimination is cancelled when the tour is  *)
(* switched, the component is torn down or the mode leaves edit before the *)
(* pointer-up: that pointer-up emits no add-anchor intent, does not call   *)
(* into the new viewer and raises no error.                                *)
PendingDiscriminationCancelled ==
    ~ lastUp.none =>
        \A i \in 1..Len(upLog) :
            (upLog[i].ref # upLog[i].viewer \/ lastUp.mode # "edit")
                => /\ upLog[i].outcome = "nothing"
                   /\ ~ ( /\ SmallDisplacement(upLog[i].startX,
                                               upLog[i].startY)
                          /\ upLog[i].ref # 0 )

TrackerSkipsMalformed ==
    /\ ~ Malformed(orientation)
    /\ \A i \in 1..Len(overlay) :
           overlay[i].left.k # "nan" /\ overlay[i].top.k # "nan"

(* C19: at most one <script> element and at most one <link> element        *)
(* loading the viewer's assets is ever injected, across mounts, unmounts   *)
(* and remounts, also when a remount comes before the first script has     *)
(* loaded.                                                                 *)
OneElementPerAsset == Len(scripts) <= 1 /\ links <= 1

----------------------------------------------------------------------------
(* The page's handlers *)

\* What a delete or a select for an absent id must leave alone: every field of
\* every tour, the selection and the editor.
StoreSelectionEditor ==
    <<flashcards, otherFlashcards, updatedAt, activeTourId,
      selectedFlashcardId, editorOpen, pendingPosition>>

\* C16: a delete or a select issued for an id that no card of the active tour
\* has changes nothing: every tour keeps every field, and the selection and
\* the editor state stay as they were.
AbsentIdIsNoOp ==
    [][\A id \in CallerIds :
          (id \notin ActiveIds
             /\ (pageSelectFlashcard(id) \/ pageDeleteFlashcard(id)))
          => UNCHANGED StoreSelectionEditor]_vars

\* Every card of either tour.
AllCards == flashcards \o otherFlashcards

\* C17: from a card's creation to its deletion its position stays what it
\* was created with (a step never changes the position of a card it keeps),
\* and its id stays its own: no two cards share an id, and no id is handed
\* out again.
AnchorsNeverMove ==
    [][/\ \A i \in 1..Len(AllCards) : \A j \in 1..Len(AllCards') :
              AllCards[i].id = AllCards'[j].id
              => AllCards[i].position = AllCards'[j].position
       /\ \A j, k \in 1..Len(AllCards') :
              AllCards'[j].id = AllCards'[k].id => j = k
       /\ \A j \in 1..Len(AllCards') : AllCards'[j].id < nextId'
       /\ nextId' >= nextId]_vars

\* A card created at (170, 30) is still there after an edit-and-save changed
\* its text.
AnchorsNeverMoveWitness ==
    /\ saved = "update"
    /\ \E i \in 1..Len(flashcards) :
           /\ flashcards[i].text = "r"
           /\ flashcards[i].position = [heading |-> 170, pitch |-> 30]

----------------------------------------------------------------------------
(* Reveal on click *)

\* The marker of card id is rendered with the card's answer:
\* isSelected && mode === 'view'.
ShowsAnswer(id) ==
    /\ id \in OverlayIds
    /\ selectedFlashcardId = id
    /\ mode = "view"

\* C18: in view mode a click on a marker toggles it: one that showed the
\* question shows the answer after the click, and one that showed the answer
\* shows the question again.  (The click is deterministic, so "the click
\* leads to the other side" is "a click leading to the other side is
\* possible"; a click that changes nothing is a step like any other.)
RevealToggles ==
    \A id \in 1..MaxCards :
        (mode = "view" /\ ENABLED handleSelectFlashcard(id))
        => ENABLED (/\ handleSelectFlashcard(id)
                    /\ ShowsAnswer(id)' <=> ~ ShowsAnswer(id))

----------------------------------------------------------------------------
(* SDK handshake *)

\* The adapter is not connected and shows it: no SDK handle, isConnected
\* false, an error string, no pointer-intersection subscription, no position
\* picked through one, and no add-anchor intent.
NotConnected ==
    /\ sdk = 0
    /\ ~ isConnected
    /\ error # ""
    /\ subscriptions = {}
    /\ lastClick = NoClick
    /\ addIntent.none

\* C20: when a connect call of the SDK backend has rejected and left the
\* adapter without a handle, the adapter is not connected and stays so: no
\* handle, isConnected false, an error string set, no subscription created
\* and no add-anchor intent emitted, whatever happens next.
ConnectRejectedStaysDisconnected ==
    [][(rejected /\ sdk = 0) => (NotConnected /\ NotConnected')]_vars

----------------------------------------------------------------------------
(* The editor and the pending position *)

\* C27: while the editor is closed no pending add position is held, and a
\* pending position is held only between an add-anchor intent and the
\* editor's save or close (the intent is the one it came with).
ClosedEditorHoldsNoPosition ==
    /\ ~ editorOpen => pendingPosition.none
    /\ ~ pendingPosition.none =>
           /\ ~ addIntent.none
           /\ pendingPosition = Position(addIntent.heading, addIntent.pitch)

\* The editor has just saved a new card and closed.
ClosedEditorHoldsNoPositionWitness ==
    /\ saved = "add"
    /\ ~ editorOpen
    /\ pendingPosition.none
    /\ Len(flashcards) = 1

----------------------------------------------------------------------------
(* Adding after a selection, and the selection across tours *)

\* The editor's save ran with a pending add position: the step closes the
\* editor and is not the close handler (the tour is written).
SavedWithPending ==
    /\ ~ pendingPosition.none
    /\ editorOpen
    /\ ~ editorOpen'
    /\ updatedAt' # updatedAt \/ flashcards' # flashcards

\* C23: a save that follows an add-anchor intent with position p appends
\* exactly one new anchor with position p to the active tour and leaves every
\* existing anchor as it was, whatever was selected before the add.
AddIntentSavesNewAnchor ==
    [][SavedWithPending =>
          /\ Len(flashcards') = Len(flashcards) + 1
          /\ SubSeq(flashcards', 1, Len(flashcards)) = flashcards
          /\ flashcards'[Len(flashcards')].position =
                 [heading |-> pendingPosition.heading,
                  pitch |-> pendingPosition.pitch]
          /\ otherFlashcards' = otherFlashcards]_vars

\* C28: the selected anchor id of the tour context is null or the id of an
\* anchor of the active tour.
SelectionInActiveTour ==
    selectedFlashcardId = 0 \/ selectedFlashcardId \in ActiveIds

----------------------------------------------------------------------------
(* Perspective backend: the side of the screen centre *)

\* The zooms of the documented range [-1, 1], in thirds.
DocumentedZooms == (0 - 3)..3

\* C29: in the perspective backend, for every zoom in [-1, 1], a rendered
\* anchor lies on the side of the screen centre its angular offset points to:
\* x > 50 iff headingDelta > 0, x < 50 iff headingDelta < 0, y < 50 iff
\* pitchDelta > 0, y > 50 iff pitchDelta < 0.
SameSideAsOffset ==
    (backend = "perspective" /\ orientation.zoom \in DocumentedZooms) =>
        \A i \in 1..Len(flashcards) :
            flashcards[i].id \in OverlayIds =>
                LET marker == MarkerOf(flashcards[i].id)
                    headingDelta ==
                        normalizeHeading(flashcards[i].position.heading
                                         - orientation.heading)
                    pitchDelta ==
                        flashcards[i].position.pitch - orientation.pitch
                IN  /\ NumGt(marker.left, 50) <=> headingDelta > 0
                    /\ NumLt(marker.left, 50) <=> headingDelta < 0
                    /\ NumLt(marker.top, 50) <=> pitchDelta > 0
                    /\ NumGt(marker.top, 50) <=> pitchDelta < 0

\* An anchor up and to the right of the view, pushed to the right edge by
\* the clamp.
SameSideAsOffsetWitness ==
    /\ backend = "perspective"
    /\ orientation.zoom \in DocumentedZooms
    /\ \E i \in 1..Len(overlay) :
          /\ NumEq(overlay[i].left, 98)
          /\ NumLt(overlay[i].top, 50)

----------------------------------------------------------------------------
(* Linear-mapping backend: the rendered positions *)

\* C30: in the linear-mapping backend every rendered anchor has a finite
\* screen position with 0 <= screenX <= 100 and 0 <= screenY <= 100, for every
\* orientation and zoom the tracker holds.
RenderedWithinScreen ==
    backend = "linear" =>
        \A i \in 1..Len(overlay) :
            /\ IsFinite(overlay[i].left)
            /\ IsFinite(overlay[i].top)
            /\ ~ NumLt(overlay[i].left, 0)
            /\ ~ NumGt(overlay[i].left, 100)
            /\ ~ NumLt(overlay[i].top, 0)
            /\ ~ NumGt(overlay[i].top, 100)

----------------------------------------------------------------------------
(* Polled backend: the hotspots the viewer holds *)

\* C26: in the polled backend, once the hotspot-update step has run for the
\* tour, the viewer holds one hotspot per anchor of the tour and no other: no
\* stale hotspot of a deleted anchor and no id twice.
HotspotsMatchAnchors ==
    (backend = "pannellum" /\ viewerRef # 0) =>
        /\ OverlayIds = ActiveIds
        /\ Len(overlay) = Len(flashcards)

----------------------------------------------------------------------------
(* Polled backend: the transient pointer-up listener *)

\* The handleMouseUp closures that called onAddFlashcard at the last
\* pointer-up.
IntentsOfLastUp == {i \in 1..Len(upLog) : upLog[i].outcome = "add"}

\* At most one pointer-up listener is registered.
AtMostOneListener == Len(listeners) <= 1

\* Once a pointer-up has been handled no listener is left.
NoListenerAfterUp == ~ lastUp.none => listeners = << >>

\* One pointer-up emits at most one add-anchor intent.
AtMostOneIntentPerUp == Cardinality(IntentsOfLastUp) <= 1

\* C22: click-vs-drag is idle -> armed -> idle: at most one pointer-up
\* listener is registered at any time, none is left once a pointer-up has
\* been handled, and one pointer-up emits at most one add-anchor intent.
OneTransientListener ==
    /\ AtMostOneListener
    /\ NoListenerAfterUp
    /\ AtMostOneIntentPerUp

----------------------------------------------------------------------------
(* SDK backend: the connect handshake *)

\* The step calls window.MP_SDK.connect.
ConnectInvoked == connects' > connects

\* C24: in the SDK backend the connect handshake is invoked at most once per
\* viewer session and never after the component has been unmounted, for
\* every ordering of script load, iframe load and the 2-second timers.
ConnectOncePerSession ==
    [][ConnectInvoked => (connects = 0 /\ mpMounted)]_vars

\* The first half alone: at most one connect call.
ConnectAtMostOnce == connects <= 1

----------------------------------------------------------------------------
(* A viewer script that fails to load *)

\* The mounted adapter's own script has failed to load.
ScriptLoadFailed ==
    CASE backend = "pannellum" ->
             /\ pannMounted
             /\ \E i \in 1..Len(scripts) : /\ scripts[i].owner = pannInstance
                                            /\ scripts[i].failed
      [] backend = "matterport" -> mpMounted /\ mpScript = "failed"
      [] OTHER -> FALSE

\* The failure status the adapter shows: MatterportViewer renders its error
\* state; PannellumViewer holds no error state and renders none.
FailureStatus == IF backend = "matterport" THEN error ELSE ""

\* The adapter is not ready: no viewer constructed, nothing connected.
AdapterNotReady ==
    CASE backend = "pannellum" -> ~ isReady /\ viewerRef = 0
      [] backend = "matterport" -> ~ sdkLoaded /\ sdk = 0 /\ connects = 0
      [] OTHER -> TRUE

\* C21: when the viewer script has failed to load, the adapter shows a
\* failure status to the UI and stays not-ready (no viewer is constructed).
ScriptFailureSurfaced ==
    ScriptLoadFailed => (FailureStatus # "" /\ AdapterNotReady)

\* The second half alone: after the failure the adapter is not ready.
ScriptFailureNotReady == ScriptLoadFailed => AdapterNotReady

----------------------------------------------------------------------------
(* Push-event backend: the orientation listener *)

\* C25: in the push-event backend, for every ordering of mounts, remounts
\* and script-load completion, once the API script has loaded a mounted
\* adapter eventually has its orientation listener registered (exactly one
\* while mounted).
ListenerEventuallyRegistered ==
    (api.mounted /\ api.script = "loaded")
        ~> (api.listeners = 1 \/ ~ api.mounted)

\* The safety half: never more than one listener, none after the unmount.
ListenerAtMostOne ==
    /\ api.listeners <= 1
    /\ ~ api.mounted => api.listeners = 0

====
